---- MODULE Spec2Model ----
(***************************************************************************)
(* A model of the user API: the bearer-token gate (middlewares.ts), the    *)
(* route handlers of the router (create, get, update, delete, list, login) *)
(* and the "User" collection with its unique username index (mongodb.ts).  *)
(*                                                                         *)
(* Strings are sequences of one-character strings.  An optional value      *)
(* (a JSON field, a query parameter, a token claim that may be undefined)  *)
(* is a sequence of length 0 (undefined) or 1 (the value).                 *)
(* A request runs synchronously up to its awaited store call; the store    *)
(* call and the response written after it are one later step, so requests  *)
(* of different clients interleave at the await.                           *)
(***************************************************************************)
EXTENDS Integers, Sequences, FiniteSets, TLC

VARIABLES
    now,      \* Date.now(), in ms since the start of the observation
    users,    \* the documents of the User collection
    nextId,   \* number of ObjectIds generated so far by `new User`
    tokens,   \* every token signed under JWT_SECRET, by its payload
    req,      \* per connection: the request in flight or last answered
    orig,     \* history: per stored id, the create call that made it (until changed)
    script    \* position of the sequential test client of the scenario

vars == <<now, users, nextId, tokens, req, orig, script>>

----------------------------------------------------------------------------
(* Bounds *)

MaxTicks == 2       \* clock advances per behaviour
MaxIds == 2         \* ObjectIds that may be generated
MaxLogins == 1      \* tokens issued by POST /login
MaxRequests == 4    \* requests the client of SpecDelete sends

(* Program constants *)

TTL == 300 * 1000   \* token lifetime in ms
DefaultLimit == 10
DefaultOffset == 0

\* the connections: two, so that two requests can be in flight at once
Slots == {1, 2}

----------------------------------------------------------------------------
(* Strings *)

IsWhitespace(c) == c \in {" ", "\t", "\n"}

RECURSIVE TrimLeft(_)
TrimLeft(s) ==
    IF s # <<>> /\ IsWhitespace(Head(s)) THEN TrimLeft(Tail(s)) ELSE s

RECURSIVE TrimRight(_)
TrimRight(s) ==
    IF s # <<>> /\ IsWhitespace(s[Len(s)])
    THEN TrimRight(SubSeq(s, 1, Len(s) - 1))
    ELSE s

\* validator.js trim(): strips whitespace (here space, tab, newline) from
\* both ends
Trim(s) == TrimRight(TrimLeft(s))

\* validator.js escape(): one character to its HTML entity
EscapeChar(c) ==
    CASE c = "&" -> <<"&", "a", "m", "p", ";">>
      [] c = "<" -> <<"&", "l", "t", ";">>
      [] c = ">" -> <<"&", "g", "t", ";">>
      [] c = "\"" -> <<"&", "q", "u", "o", "t", ";">>
      [] c = "'" -> <<"&", "#", "x", "2", "7", ";">>
      [] c = "/" -> <<"&", "#", "x", "2", "F", ";">>
      [] c = "\\" -> <<"&", "#", "x", "5", "C", ";">>
      [] OTHER -> <<c>>

RECURSIVE Escape(_)
Escape(s) == IF s = <<>> THEN <<>> ELSE EscapeChar(Head(s)) \o Escape(Tail(s))

\* express-validator toString(): undefined becomes the empty string
ToStr(opt) == IF opt = <<>> THEN <<>> ELSE opt[1]

\* body("username").notEmpty(): the value as received has length > 0
NotEmpty(opt) == Len(ToStr(opt)) > 0

\* the sanitizers of the chain, in order: .trim().escape()
Sanitize(s) == Escape(Trim(s))

\* The validation chain of POST /users and PUT /users/:id:
\* notEmpty() is evaluated on the raw value, then trim() and escape() run.
\* errors = validationResult(req) is non-empty iff notEmpty() failed;
\* username = matchedData(req).username
ValidateUsername(opt) ==
    [ errors |-> ~NotEmpty(opt),
      username |-> Sanitize(ToStr(opt)) ]

----------------------------------------------------------------------------
(* ObjectIds.  A path parameter is an integer standing for a string: a     *)
(* positive one for a well-formed ObjectId string, 0 for any other string. *)

BadId == 0

\* mongoose.Types.ObjectId.isValid(req.params.id ?? "")
ObjectIdNotChecked(id) == TRUE

ObjectIdIsValid(id) == id > 0

----------------------------------------------------------------------------
(* Tokens and the Authorization header.  A header is a string whose        *)
(* characters are Space, Word (any character of a scheme name or of        *)
(* garbage) or k + 1 for the k-th signed token of `tokens`, taken whole.   *)

Space == 0
Word == 1

TokenChar(k) == k + 1

\* payloads signed under the secret before the observation starts:
\* two not issued by /login, and one issued by /login at time 0
EnvTokens ==
    << [role |-> "user", expires_at |-> <<>>],
       [role |-> "user", expires_at |-> <<0 - 1>>],
       [role |-> "admin", expires_at |-> <<>>],
       [role |-> "admin", expires_at |-> <<TTL>>] >>

\* header.split(" "): the segments between spaces
RECURSIVE SplitFrom(_, _)
SplitFrom(s, cur) ==
    IF s = <<>> THEN <<cur>>
    ELSE IF Head(s) = Space THEN <<cur>> \o SplitFrom(Tail(s), <<>>)
    ELSE SplitFrom(Tail(s), Append(cur, Head(s)))

Split(s) == SplitFrom(s, <<>>)

\* header.split(" ")[1]: the second segment, undefined when there is none
ExtractToken(header) ==
    LET parts == Split(header) IN
    IF Len(parts) >= 2 THEN <<parts[2]>> ELSE <<>>

\* jwt.verify(token, secret, cb): error unless the token is one signed under
\* the secret; data is its payload
JwtVerify(tokenOpt, toks) ==
    LET ok == /\ tokenOpt # <<>>
              /\ Len(tokenOpt[1]) = 1
              /\ tokenOpt[1][1] - 1 \in 1..Len(toks)
    IN [ error |-> ~ok,
         data |-> IF ok THEN toks[tokenOpt[1][1] - 1]
                  ELSE [role |-> "", expires_at |-> <<>>] ]

\* Number(x) < t, where Number(undefined) is NaN and NaN < t is false
NumberLess(opt, t) == opt # <<>> /\ opt[1] < t

\* jwt.sign(payload, secret) of POST /login
LoginPayloadInSeconds(t) == [role |-> "admin", expires_at |-> <<t + 300>>]

LoginPayload(t) == [role |-> "admin", expires_at |-> <<t + TTL>>]

\* authMiddleware: the response it writes (status 0: none) and how many
\* times it calls next()
AuthMiddlewareNoReturn(header, toks, t) ==
    LET v == JwtVerify(ExtractToken(header), toks) IN
    IF header = <<>>
    THEN [status |-> 401, msg |-> "Authorization token is required.", nexts |-> 1]
    ELSE IF v.error
    THEN [status |-> 401, msg |-> "Authorization token is invalid.", nexts |-> 1]
    ELSE IF v.data.role # "admin"
    THEN [status |-> 403, msg |-> "Role must be admin to perform this action.", nexts |-> 1]
    ELSE IF NumberLess(v.data.expires_at, t)
    THEN [status |-> 403, msg |-> "Authorization token has expired.", nexts |-> 1]
    ELSE [status |-> 0, msg |-> "", nexts |-> 1]

AuthMiddlewareExpiryFirst(header, toks, t) ==
    LET v == JwtVerify(ExtractToken(header), toks) IN
    IF header = <<>>
    THEN [status |-> 401, msg |-> "Authorization token is required.", nexts |-> 0]
    ELSE IF v.error
    THEN [status |-> 401, msg |-> "Authorization token is invalid.", nexts |-> 0]
    ELSE IF NumberLess(v.data.expires_at, t)
    THEN [status |-> 403, msg |-> "Authorization token has expired.", nexts |-> 0]
    ELSE IF v.data.role # "admin"
    THEN [status |-> 403, msg |-> "Role must be admin to perform this action.", nexts |-> 0]
    ELSE [status |-> 0, msg |-> "", nexts |-> 1]

AuthMiddleware(header, toks, t) ==
    LET v == JwtVerify(ExtractToken(header), toks) IN
    IF header = <<>>
    THEN [status |-> 401, msg |-> "Authorization token is required.", nexts |-> 0]
    ELSE IF v.error
    THEN [status |-> 401, msg |-> "Authorization token is invalid.", nexts |-> 0]
    ELSE IF v.data.role # "admin"
    THEN [status |-> 403, msg |-> "Role must be admin to perform this action.", nexts |-> 0]
    ELSE IF NumberLess(v.data.expires_at, t)
    THEN [status |-> 403, msg |-> "Authorization token has expired.", nexts |-> 0]
    ELSE [status |-> 0, msg |-> "", nexts |-> 1]

\* errorMiddleware: the status for an error passed to next(e)
ErrorMiddlewareAlways500(err) ==
    [status |-> 500, msg |-> "Something went wrong."]

ErrorMiddlewareWrongCode(err) ==
    IF err.name = "MongoServerError" /\ err.code = 11001
    THEN [status |-> 409, msg |-> "A user with this name already exists."]
    ELSE [status |-> 500, msg |-> "Something went wrong."]

ErrorMiddleware(err) ==
    IF err.name = "MongoServerError" /\ err.code = 11000
    THEN [status |-> 409, msg |-> "A user with this name already exists."]
    ELSE [status |-> 500, msg |-> "Something went wrong."]

----------------------------------------------------------------------------
(* The User collection: documents {_id, username, joined_at}, with the     *)
(* unique index on username declared by userSchema.                        *)

NoDoc == [_id |-> BadId, username |-> <<>>, joined_at |-> 0]

DuplicateKeyError == [name |-> "MongoServerError", code |-> 11000]

\* the error of a command the server refuses as malformed (a code other than
\* 11000), and the error of a store that cannot be reached
RefusedError == [name |-> "MongoServerError", code |-> 2]
StoreError == [name |-> "MongoNetworkError", code |-> 0]

ById(us, id) == {d \in us : d._id = id}

\* the unique index: another document already holds the username
IndexIgnored(us, doc) == FALSE

ViolatesUnique(us, doc) ==
    \E d \in us : d._id # doc._id /\ d.username = doc.username

\* findByIdAndUpdate(id, {username}): the document after the update
ApplyUpdateDropped(d, username) == d

ApplyUpdateOverwrite(d, username) ==
    [NoDoc EXCEPT !._id = d._id, !.username = username]

ApplyUpdate(d, username) == [d EXCEPT !.username = username]

\* new User({username}): _id is generated and joined_at defaults to
\* Date.now() when the document is constructed
NewUserNoDefault(oid, username, t) ==
    [_id |-> oid, username |-> username, joined_at |-> 0]

NewUser(oid, username, t) ==
    [_id |-> oid, username |-> username, joined_at |-> t]

----------------------------------------------------------------------------
(* Requests *)

NoQuery == [limit |-> <<>>, offset |-> <<>>, order |-> <<>>]

\* the arguments of User.find().sort().skip().limit(); numbers in tenths
NoFind == [dir |-> "", skip |-> 0, limit |-> 0]

Idle ==
    [ pc |-> "idle", op |-> "none", header |-> <<>>, id |-> BadId,
      username |-> <<>>, query |-> NoQuery, at |-> 0,
      gate |-> 0, nexts |-> 0, ops |-> 0, doc |-> NoDoc,
      find |-> NoFind, status |-> 0, msg |-> "", body |-> <<>>, token |-> 0,
      error |-> <<>> ]

\* a request as received at time t
Received(op, header, id, username, query, t) ==
    [Idle EXCEPT !.op = op, !.header = header, !.id = id,
                 !.username = username, !.query = query, !.at = t]

\* res.status(status).json({message}) and return
Answered(r, status, msg) ==
    [r EXCEPT !.pc = "done", !.status = status, !.msg = msg]

\* the handler is suspended at its awaited store call on doc
Awaiting(r, doc) == [r EXCEPT !.pc = "await", !.doc = doc]

\* next(e): Express hands the error to the error-handling middleware the
\* application registered after the router, errorMiddleware
NextError(err) == ErrorMiddleware(err)

\* the awaited store call threw err inside try: catch (e) { next(e) }
Caught(r, err) ==
    [Answered(r, NextError(err).status, NextError(err).msg)
        EXCEPT !.ops = r.ops + 1, !.error = <<err>>]

\* the awaited store call threw err in a handler without try: the promise
\* of the handler is rejected, nothing catches it and no response is written
Uncaught(r, err) ==
    [r EXCEPT !.pc = "failed", !.ops = r.ops + 1, !.error = <<err>>]

\* the request after authMiddleware ran on it
Gated(r, g) == [r EXCEPT !.gate = g.status, !.nexts = g.nexts]

Free(s) == req[s].pc # "await"

\* the test client before it starts: requests sent, id it was given, and
\* the responses it received
NoScript == [step |-> 0, id |-> BadId, log |-> <<>>]

Quiet == UNCHANGED <<script>>

\* POST /users up to `await user.save()`
PostUsers(s, header, username) ==
    LET g == AuthMiddleware(header, tokens, now)
        r == Gated(Received("create", header, BadId, username, NoQuery, now), g)
        v == ValidateUsername(username)
    IN
    /\ Free(s)
    /\ IF g.nexts = 0
       THEN /\ req' = [req EXCEPT ![s] = Answered(r, g.status, g.msg)]
            /\ UNCHANGED nextId
       ELSE IF v.errors
       THEN /\ req' = [req EXCEPT ![s] = Answered(r, 400, "Username is invalid.")]
            /\ UNCHANGED nextId
       ELSE /\ nextId < MaxIds
            /\ nextId' = nextId + 1
            /\ req' = [req EXCEPT ![s] =
                         Awaiting(r, NewUser(nextId + 1, v.username, now))]
    /\ UNCHANGED <<now, users, tokens, orig>>

\* user.save() and the rest of the POST /users handler
UserSave(s) ==
    LET r == req[s] IN
    /\ r.pc = "await" /\ r.op = "create"
    /\ IF ViolatesUnique(users, r.doc)
       THEN /\ req' = [req EXCEPT ![s] = Caught(r, DuplicateKeyError)]
            /\ UNCHANGED <<users, orig>>
       ELSE /\ users' = users \cup {r.doc}
            /\ orig' = [i \in DOMAIN orig \cup {r.doc._id} |->
                          IF i = r.doc._id
                          THEN [raw |-> ToStr(r.username), at |-> r.at]
                          ELSE orig[i]]
            /\ req' = [req EXCEPT ![s] =
                         [Answered(r, 201, "") EXCEPT !.ops = r.ops + 1,
                                                      !.body = <<r.doc>>]]
    /\ UNCHANGED <<now, nextId, tokens>>

\* GET /users/:id up to `await User.findById`
GetUser(s, id) ==
    LET r == Received("get", <<>>, id, <<>>, NoQuery, now) IN
    /\ Free(s)
    /\ req' = [req EXCEPT ![s] =
                 IF ~ObjectIdIsValid(id)
                 THEN Answered(r, 400, "Invalid ID.")
                 ELSE Awaiting(r, NoDoc)]
    /\ UNCHANGED <<now, users, nextId, tokens, orig>>

\* User.findById and the rest of the GET /users/:id handler
UserFindById(s) ==
    LET r == req[s]
        found == ById(users, r.id)
    IN
    /\ r.pc = "await" /\ r.op = "get"
    /\ req' = [req EXCEPT ![s] =
                 IF found = {}
                 THEN [Answered(r, 404, "No user with this ID found.")
                          EXCEPT !.ops = r.ops + 1]
                 ELSE [Answered(r, 200, "")
                          EXCEPT !.ops = r.ops + 1,
                                 !.body = <<CHOOSE d \in found : TRUE>>]]
    /\ UNCHANGED <<now, users, nextId, tokens, orig>>

\* PUT /users/:id up to `await User.findByIdAndUpdate`
PutUserValidationFirst(s, header, id, username) ==
    LET g == AuthMiddleware(header, tokens, now)
        r == Gated(Received("update", header, id, username, NoQuery, now), g)
        v == ValidateUsername(username)
    IN
    /\ Free(s)
    /\ req' = [req EXCEPT ![s] =
                 IF g.nexts = 0 THEN Answered(r, g.status, g.msg)
                 ELSE IF v.errors THEN Answered(r, 400, "Username is invalid.")
                 ELSE IF ~ObjectIdIsValid(id) THEN Answered(r, 400, "Invalid ID.")
                 ELSE Awaiting(r, [NoDoc EXCEPT !._id = id,
                                                !.username = v.username])]
    /\ UNCHANGED <<now, users, nextId, tokens, orig>>

PutUser(s, header, id, username) ==
    LET g == AuthMiddleware(header, tokens, now)
        r == Gated(Received("update", header, id, username, NoQuery, now), g)
        v == ValidateUsername(username)
    IN
    /\ Free(s)
    /\ req' = [req EXCEPT ![s] =
                 IF g.nexts = 0 THEN Answered(r, g.status, g.msg)
                 ELSE IF ~ObjectIdIsValid(id) THEN Answered(r, 400, "Invalid ID.")
                 ELSE IF v.errors THEN Answered(r, 400, "Username is invalid.")
                 ELSE Awaiting(r, [NoDoc EXCEPT !._id = id,
                                                !.username = v.username])]
    /\ UNCHANGED <<now, users, nextId, tokens, orig>>

\* User.findByIdAndUpdate(id, {username}) and the rest of the PUT handler
UserFindByIdAndUpdateUpsert(s) ==
    LET r == req[s]
        found == ById(users, r.id)
    IN
    /\ r.pc = "await" /\ r.op = "update"
    /\ IF ViolatesUnique(users, r.doc)
       THEN /\ req' = [req EXCEPT ![s] = Caught(r, DuplicateKeyError)]
            /\ UNCHANGED <<users, orig>>
       ELSE IF found = {}
       THEN /\ users' = users \cup {NewUser(r.id, r.doc.username, now)}
            /\ req' = [req EXCEPT ![s] =
                         [Answered(r, 404, "User with given ID not found.")
                             EXCEPT !.ops = r.ops + 1]]
            /\ UNCHANGED orig
       ELSE /\ users' = {IF d._id = r.id
                         THEN ApplyUpdate(d, r.doc.username)
                         ELSE d : d \in users}
            /\ orig' = [i \in DOMAIN orig \ {r.id} |-> orig[i]]
            /\ req' = [req EXCEPT ![s] =
                         [Answered(r, 204, "") EXCEPT !.ops = r.ops + 1]]
    /\ UNCHANGED <<now, nextId, tokens>>

UserFindByIdAndUpdate(s) ==
    LET r == req[s]
        found == ById(users, r.id)
    IN
    /\ r.pc = "await" /\ r.op = "update"
    /\ IF found = {}
       THEN /\ req' = [req EXCEPT ![s] =
                         [Answered(r, 404, "User with given ID not found.")
                             EXCEPT !.ops = r.ops + 1]]
            /\ UNCHANGED <<users, orig>>
       ELSE IF ViolatesUnique(users, r.doc)
       THEN /\ req' = [req EXCEPT ![s] = Caught(r, DuplicateKeyError)]
            /\ UNCHANGED <<users, orig>>
       ELSE /\ users' = {IF d._id = r.id
                         THEN ApplyUpdate(d, r.doc.username)
                         ELSE d : d \in users}
            /\ orig' = [i \in DOMAIN orig \ {r.id} |-> orig[i]]
            /\ req' = [req EXCEPT ![s] =
                         [Answered(r, 204, "") EXCEPT !.ops = r.ops + 1]]
    /\ UNCHANGED <<now, nextId, tokens>>

\* DELETE /users/:id up to `await User.findByIdAndDelete`
DeleteUser(s, header, id) ==
    LET g == AuthMiddleware(header, tokens, now)
        r == Gated(Received("delete", header, id, <<>>, NoQuery, now), g)
    IN
    /\ Free(s)
    /\ req' = [req EXCEPT ![s] =
                 IF g.nexts = 0 THEN Answered(r, g.status, g.msg)
                 ELSE IF ~ObjectIdIsValid(id) THEN Answered(r, 400, "Invalid ID.")
                 ELSE Awaiting(r, NoDoc)]
    /\ UNCHANGED <<now, users, nextId, tokens, orig>>

\* User.findByIdAndDelete(id) and the rest of the DELETE handler
UserFindByIdAndDeleteKept(s) ==
    LET r == req[s]
        found == ById(users, r.id)
    IN
    /\ r.pc = "await" /\ r.op = "delete"
    /\ req' = [req EXCEPT ![s] =
                 IF found = {}
                 THEN [Answered(r, 404, "User with given ID not found.")
                          EXCEPT !.ops = r.ops + 1]
                 ELSE [Answered(r, 200, "")
                          EXCEPT !.ops = r.ops + 1,
                                 !.body = <<CHOOSE d \in found : TRUE>>]]
    /\ UNCHANGED <<now, users, nextId, tokens, orig>>

UserFindByIdAndDelete(s) ==
    LET r == req[s]
        found == ById(users, r.id)
    IN
    /\ r.pc = "await" /\ r.op = "delete"
    /\ IF found = {}
       THEN /\ req' = [req EXCEPT ![s] =
                         [Answered(r, 404, "User with given ID not found.")
                             EXCEPT !.ops = r.ops + 1]]
            /\ UNCHANGED <<users, orig>>
       ELSE /\ users' = users \ found
            /\ orig' = [i \in DOMAIN orig \ {r.id} |-> orig[i]]
            /\ req' = [req EXCEPT ![s] =
                         [Answered(r, 200, "")
                             EXCEPT !.ops = r.ops + 1,
                                    !.body = <<CHOOSE d \in found : TRUE>>]]
    /\ UNCHANGED <<now, nextId, tokens>>

----------------------------------------------------------------------------
(* GET /users.  A JavaScript number is NaN or a value, kept in tenths so   *)
(* that one fractional digit can be told from an integer.                  *)

NaN == [nan |-> TRUE, tenths |-> 0]

Num(tenths) == [nan |-> FALSE, tenths |-> tenths]

IsDigit(c) == c \in {"0", "1", "2", "3", "4", "5", "6", "7", "8", "9"}

DigitValue(c) ==
    CASE c = "0" -> 0 [] c = "1" -> 1 [] c = "2" -> 2 [] c = "3" -> 3
      [] c = "4" -> 4 [] c = "5" -> 5 [] c = "6" -> 6 [] c = "7" -> 7
      [] c = "8" -> 8 [] c = "9" -> 9

AllDigits(s) == \A i \in 1..Len(s) : IsDigit(s[i])

RECURSIVE DigitsValue(_)
DigitsValue(s) ==
    IF s = <<>> THEN 0
    ELSE 10 * DigitsValue(SubSeq(s, 1, Len(s) - 1)) + DigitValue(s[Len(s)])

\* Number(s) of an unsigned decimal literal with at most one fractional
\* digit: digits, digits ".", digits "." digit, "." digit
UnsignedNumber(s) ==
    LET dots == {i \in 1..Len(s) : s[i] = "."} IN
    IF dots = {}
    THEN IF s # <<>> /\ AllDigits(s) THEN Num(10 * DigitsValue(s)) ELSE NaN
    ELSE LET d == CHOOSE i \in dots : TRUE
             whole == SubSeq(s, 1, d - 1)
             frac == SubSeq(s, d + 1, Len(s))
         IN IF /\ Cardinality(dots) = 1
               /\ AllDigits(whole) /\ AllDigits(frac)
               /\ Len(whole) + Len(frac) > 0
               /\ Len(frac) <= 1
            THEN Num(10 * DigitsValue(whole) + DigitsValue(frac))
            ELSE NaN

\* Number(x) of a query parameter: undefined is NaN, a string is trimmed,
\* the empty string is 0, a sign may precede the literal
NumberOf(opt) ==
    IF opt = <<>> THEN NaN
    ELSE LET t == Trim(opt[1]) IN
         IF t = <<>> THEN Num(0)
         ELSE IF Head(t) = "-"
         THEN LET n == UnsignedNumber(Tail(t)) IN
              IF n.nan THEN NaN ELSE Num(0 - n.tenths)
         ELSE IF Head(t) = "+" THEN UnsignedNumber(Tail(t))
         ELSE UnsignedNumber(t)

\* String.prototype.toLowerCase(), one character
LowerChar(c) ==
    CASE c = "A" -> "a" [] c = "S" -> "s" [] c = "C" -> "c"
      [] c = "D" -> "d" [] c = "E" -> "e"
      [] OTHER -> c

ToLowerCase(s) == [i \in 1..Len(s) |-> LowerChar(s[i])]

\* req.query.order?.toString().toLowerCase() === "asc" ? "asc" : "desc"
SortDirectionCaseSensitive(orderOpt) ==
    IF orderOpt # <<>> /\ orderOpt[1] = <<"a", "s", "c">> THEN "asc" ELSE "desc"

SortDirection(orderOpt) ==
    IF orderOpt # <<>> /\ ToLowerCase(orderOpt[1]) = <<"a", "s", "c">>
    THEN "asc" ELSE "desc"

\* isNaN(Number(x)) ? dflt : Number(x), in tenths
NumberOrDefault(opt, dflt) ==
    IF NumberOf(opt).nan THEN 10 * dflt ELSE NumberOf(opt).tenths

\* the find the handler of GET /users builds from req.query
FindOf(query) ==
    [ dir |-> SortDirection(query.order),
      skip |-> NumberOrDefault(query.offset, DefaultOffset),
      limit |-> NumberOrDefault(query.limit, DefaultLimit) ]

\* the sequences that hold every document of us once, ordered by joined_at
Sorted(us, dir) ==
    { q \in [1..Cardinality(us) -> us] :
        /\ \A i, j \in 1..Cardinality(us) : i # j => q[i] # q[j]
        /\ \A i, j \in 1..Cardinality(us) :
              i < j => IF dir = "asc" THEN q[i].joined_at <= q[j].joined_at
                       ELSE q[i].joined_at >= q[j].joined_at }

\* MongoDB refuses a skip that is negative or fractional and a limit that is
\* fractional
FindRefused(f) == f.skip < 0 \/ f.skip % 10 # 0 \/ f.limit % 10 # 0

\* .skip(n).limit(m) on a sorted result: limit 0 is no limit, a negative
\* limit is its absolute value
Page(q, f) ==
    LET from == f.skip \div 10 + 1
        m == IF f.limit < 0 THEN (0 - f.limit) \div 10 ELSE f.limit \div 10
        to == IF m = 0 \/ from + m - 1 > Len(q) THEN Len(q) ELSE from + m - 1
    IN SubSeq(q, from, to)

\* GET /users up to `await User.find()...`
GetUsers(s, query) ==
    LET r == Received("list", <<>>, BadId, <<>>, query, now) IN
    /\ Free(s)
    /\ req' = [req EXCEPT ![s] = [Awaiting(r, NoDoc) EXCEPT !.find = FindOf(query)]]
    /\ UNCHANGED <<now, users, nextId, tokens, orig>>

\* User.find().sort().skip().limit() and res.json({result}); the handler
\* has no catch, so a refused find leaves the request without a response
UserFind(s) ==
    LET r == req[s] IN
    /\ r.pc = "await" /\ r.op = "list"
    /\ IF FindRefused(r.find)
       THEN req' = [req EXCEPT ![s] = Uncaught(r, RefusedError)]
       ELSE \E q \in Sorted(users, r.find.dir) :
               req' = [req EXCEPT ![s] =
                         [Answered(r, 200, "") EXCEPT !.ops = r.ops + 1,
                                                      !.body = Page(q, r.find)]]
    /\ UNCHANGED <<now, users, nextId, tokens, orig>>

\* the awaited store call of any handler fails: the store cannot be reached
StoreFails(s) ==
    LET r == req[s] IN
    /\ r.pc = "await"
    /\ req' = [req EXCEPT ![s] =
                 IF r.op = "list" THEN Uncaught(r, StoreError)
                 ELSE Caught(r, StoreError)]
    /\ UNCHANGED <<now, users, nextId, tokens, orig>>

\* POST /login: signs {role, expires_at} and answers with the token
Login(s) ==
    LET r == Received("login", <<>>, BadId, <<>>, NoQuery, now) IN
    /\ Free(s)
    /\ Len(tokens) < Len(EnvTokens) + MaxLogins
    /\ tokens' = Append(tokens, LoginPayload(now))
    /\ req' = [req EXCEPT ![s] =
                 [Answered(r, 200, "")
                     EXCEPT !.token = TokenChar(Len(tokens) + 1)]]
    /\ UNCHANGED <<now, users, nextId, orig>>

\* the instants the clock can show: at most MaxTicks advances of 1 ms or TTL
Times ==
    {a + b * TTL : a \in 0..MaxTicks, b \in 0..MaxTicks} \cap
    UNION {{a + b * TTL : a \in 0..(MaxTicks - b)} : b \in 0..MaxTicks}

\* time passes
Tick(d) ==
    /\ now + d \in Times
    /\ now' = now + d
    /\ UNCHANGED <<users, nextId, tokens, req, orig>>

----------------------------------------------------------------------------------------------------------------------------------------
(* Inputs *)

\* "Bearer <token>" with the admin token that /login issued at time 0
AdminHeader == <<Word, Space, TokenChar(4)>>

Str(s) == <<s>>

Ids == 0..MaxIds

Init ==
    /\ now = 0
    /\ users = {}
    /\ nextId = 0
    /\ tokens = EnvTokens
    /\ req = [s \in Slots |-> Idle]
    /\ orig = <<>>
    /\ script = NoScript

----------------------------------------------------------------------------
(* Spec: admitted writers on two connections, interleaving at their store  *)
(* calls.                                                                  *)

WriterNames == { Str(<<"a">>), Str(<<" ", "a">>), Str(<<"<">>) }

Next ==
    \/ \E s \in Slots, u \in WriterNames : PostUsers(s, AdminHeader, u) /\ Quiet
    \/ \E s \in Slots : UserSave(s) /\ Quiet
    \/ \E s \in Slots, i \in Ids \ {BadId}, u \in WriterNames :
          PutUser(s, AdminHeader, i, u) /\ Quiet
    \/ \E s \in Slots : UserFindByIdAndUpdate(s) /\ Quiet
    \/ \E s \in Slots, i \in Ids \ {BadId} : DeleteUser(s, AdminHeader, i) /\ Quiet
    \/ \E s \in Slots : UserFindByIdAndDelete(s) /\ Quiet

Spec == Init /\ [][Next]_vars

----------------------------------------------------------------------------
(* SpecRace: two admitted POST /users requests carrying the same username, *)
(* one per connection, against a store that may already hold a user.       *)

\* a document inserted before the observation, with an id of that time
OldUser(username) == NewUser(MaxIds + 1, username, 0)

RaceStores == { {}, {OldUser(<<"a">>)}, {OldUser(<<"b">>)} }

\* usernames that pass the validation chain
RaceNames ==
    { Str(<<" ">>), Str(<<"a">>), Str(<<" ", "a">>), Str(<<"<">>), Str(<<"b">>) }

RaceInit ==
    /\ now = 0
    /\ users \in RaceStores
    /\ nextId = 0
    /\ tokens = EnvTokens
    /\ req = [s \in Slots |-> Idle]
    /\ orig = <<>>
    /\ script = NoScript

RaceNext ==
    \/ \E s \in Slots, u \in RaceNames :
          /\ req[s].pc = "idle"
          /\ \A t \in Slots \ {s} : req[t].pc = "idle" \/ req[t].username = u
          /\ PostUsers(s, AdminHeader, u)
          /\ Quiet
    \/ \E s \in Slots : UserSave(s) /\ Quiet
    \/ Tick(1) /\ Quiet

SpecRace == RaceInit /\ [][RaceNext]_vars

----------------------------------------------------------------------------
(* SpecAuth: one connection sending POST /login and DELETE /users/:id with *)
(* every shape of Authorization header, while the clock advances by 1 ms   *)
(* or by the token lifetime.                                               *)

\* the id of the user stored before the observation
OldId == MaxIds + 1

\* absent; scheme only; token only; garbage token; two spaces before the
\* token; a token nobody signed; and "Bearer <token>" for every signed token
AuthHeaders(toks) ==
    { <<>>, <<Word>>, <<TokenChar(4)>>, <<Word, Space, Word>>,
      <<Word, Space, Space, TokenChar(4)>>,
      <<Word, Space, TokenChar(Len(toks) + 1)>> }
    \cup { <<Word, Space, TokenChar(k)>> : k \in 1..Len(toks) }

AuthInit ==
    /\ now = 0
    /\ users = {OldUser(<<"a">>)}
    /\ nextId = 0
    /\ tokens = EnvTokens
    /\ req = [s \in Slots |-> Idle]
    /\ orig = <<>>
    /\ script = NoScript

AuthNext ==
    \/ Login(1) /\ Quiet
    \/ \E h \in AuthHeaders(tokens), i \in {BadId, OldId} : DeleteUser(1, h, i) /\ Quiet
    \/ UserFindByIdAndDelete(1) /\ Quiet
    \/ \E d \in {1, TTL} : Tick(d) /\ Quiet

SpecAuth == AuthInit /\ [][AuthNext]_vars

----------------------------------------------------------------------------
(* SpecCrud: one connection sending create, get, update and delete         *)
(* requests, with and without credentials, with valid and invalid ids and  *)
(* usernames.                                                              *)

\* absent; "Bearer <token>" with a token whose role is not admin; and with
\* the admin token
CrudHeaders == {<<>>, <<Word, Space, TokenChar(1)>>, AdminHeader}

\* undefined, "", " ", "a", " a", "<"
CrudNames ==
    { <<>>, Str(<<>>), Str(<<" ">>), Str(<<"a">>), Str(<<" ", "a">>), Str(<<"<">>) }

CrudNext ==
    \/ \E h \in CrudHeaders, u \in CrudNames : PostUsers(1, h, u) /\ Quiet
    \/ UserSave(1) /\ Quiet
    \/ \E i \in Ids : GetUser(1, i) /\ Quiet
    \/ UserFindById(1) /\ Quiet
    \/ \E h \in CrudHeaders, i \in Ids, u \in CrudNames : PutUser(1, h, i, u) /\ Quiet
    \/ UserFindByIdAndUpdate(1) /\ Quiet
    \/ \E h \in CrudHeaders, i \in Ids : DeleteUser(1, h, i) /\ Quiet
    \/ UserFindByIdAndDelete(1) /\ Quiet

SpecCrud == Init /\ [][CrudNext]_vars

----------------------------------------------------------------------------
(* SpecTime: one connection sending admitted, valid create, get, update    *)
(* and delete requests while the clock advances.                           *)

\* "a", " a", "<"
TimeNames == WriterNames

TimeNext ==
    \/ \E u \in TimeNames : PostUsers(1, AdminHeader, u) /\ Quiet
    \/ UserSave(1) /\ Quiet
    \/ \E i \in Ids \ {BadId} : GetUser(1, i) /\ Quiet
    \/ UserFindById(1) /\ Quiet
    \/ \E i \in Ids \ {BadId}, u \in TimeNames : PutUser(1, AdminHeader, i, u) /\ Quiet
    \/ UserFindByIdAndUpdate(1) /\ Quiet
    \/ \E i \in Ids \ {BadId} : DeleteUser(1, AdminHeader, i) /\ Quiet
    \/ UserFindByIdAndDelete(1) /\ Quiet
    \/ Tick(1) /\ Quiet

SpecTime == Init /\ [][TimeNext]_vars

----------------------------------------------------------------------------
(* SpecScenario: one client sends, each after the response to the one      *)
(* before: create "Ann", create "Ann", get, update to "Anne", get, delete, *)
(* get, with the id the first response gave it.  The store holds no "Ann"  *)
(* at the start; the clock advances.                                       *)

Ann == <<"A", "n", "n">>
Anne == <<"A", "n", "n", "e">>
Bob == <<"B", "o", "b">>

ScenarioStores == { {}, {OldUser(Bob)}, {OldUser(Anne)} }

ScenarioInit ==
    /\ now = 0
    /\ users \in ScenarioStores
    /\ nextId = 0
    /\ tokens = EnvTokens
    /\ req = [s \in Slots |-> Idle]
    /\ orig = <<>>
    /\ script = NoScript

\* the client notes the response of connection 1 when there is one, with the
\* operation it answers, and the id of the user a 201 gives it
Observe(sc) ==
    LET r == req'[1] IN
    IF r.pc # "done" THEN sc
    ELSE [sc EXCEPT !.log = Append(@, [op |-> r.op, status |-> r.status,
                                       body |-> r.body]),
                    !.id = IF r.status = 201 THEN r.body[1]._id ELSE @]

\* the client sends request number script.step + 1
ScenarioSend ==
    LET n == script.step + 1
        sent == [script EXCEPT !.step = n]
    IN
    /\ Len(script.log) = script.step
    /\ n <= 7
    /\ \/ n \in {1, 2} /\ PostUsers(1, AdminHeader, Str(Ann))
       \/ n \in {3, 5, 7} /\ GetUser(1, script.id)
       \/ n = 4 /\ PutUser(1, AdminHeader, script.id, Str(Anne))
       \/ n = 6 /\ DeleteUser(1, AdminHeader, script.id)
    /\ script' = Observe(sent)

ScenarioNext ==
    \/ ScenarioSend
    \/ UserSave(1) /\ script' = Observe(script)
    \/ UserFindById(1) /\ script' = Observe(script)
    \/ UserFindByIdAndUpdate(1) /\ script' = Observe(script)
    \/ UserFindByIdAndDelete(1) /\ script' = Observe(script)
    \/ Tick(1) /\ Quiet

SpecScenario == ScenarioInit /\ [][ScenarioNext]_vars

----------------------------------------------------------------------------
(* SpecList: one connection creating users and listing them with every     *)
(* kind of limit, offset and order, while the clock advances.              *)

ListNames == { Str(<<"a">>), Str(<<"b">>) }

\* undefined, "", "x", "-1", "1.5", "1", "0"
Limits ==
    { <<>>, Str(<<>>), Str(<<"x">>), Str(<<"-", "1">>), Str(<<"1", ".", "5">>),
      Str(<<"1">>), Str(<<"0">>) }

\* undefined, "x", "-1", ".5", "1"
Offsets ==
    { <<>>, Str(<<"x">>), Str(<<"-", "1">>), Str(<<".", "5">>), Str(<<"1">>) }

\* undefined, "asc", "ASC", "Asc", "desc", "DESC", "ascending"
Orders ==
    { <<>>, Str(<<"a", "s", "c">>), Str(<<"A", "S", "C">>), Str(<<"A", "s", "c">>),
      Str(<<"d", "e", "s", "c">>), Str(<<"D", "E", "S", "C">>),
      Str(<<"a", "s", "c", "e", "n", "d", "i", "n", "g">>) }

\* every limit alone, every offset alone, and every order with and without
\* a limit and an offset of 1
Queries ==
    { [limit |-> l, offset |-> <<>>, order |-> <<>>] : l \in Limits }
    \cup { [limit |-> <<>>, offset |-> o, order |-> Str(<<"a", "s", "c">>)] :
              o \in Offsets }
    \cup { [limit |-> l, offset |-> o, order |-> d] :
              l \in {<<>>, Str(<<"1">>)}, o \in {<<>>, Str(<<"1">>)}, d \in Orders }

ListNext ==
    \/ \E u \in ListNames : PostUsers(1, AdminHeader, u) /\ Quiet
    \/ UserSave(1) /\ Quiet
    \/ \E q \in Queries : GetUsers(1, q) /\ Quiet
    \/ UserFind(1) /\ Quiet
    \/ Tick(1) /\ Quiet

SpecList == Init /\ [][ListNext]_vars

----------------------------------------------------------------------------
(* SpecDelete: a client creates a user on connection 1 and then sends gets  *)
(* and deletes of the id it was given, each after the response to the one  *)
(* before, while connection 2 sends admitted creates, updates and deletes. *)

DeleteNames == { Str(<<"a">>), Str(<<"b">>) }

\* the client sends request number script.step + 1
DeleteSend ==
    LET n == script.step + 1
        sent == [script EXCEPT !.step = n]
    IN
    /\ Len(script.log) = script.step
    /\ n <= MaxRequests
    /\ \/ n = 1 /\ PostUsers(1, AdminHeader, Str(<<"a">>))
       \/ n > 1 /\ script.id # BadId /\ GetUser(1, script.id)
       \/ n > 1 /\ script.id # BadId /\ DeleteUser(1, AdminHeader, script.id)
    /\ script' = Observe(sent)

DeleteNext ==
    \/ DeleteSend
    \/ UserSave(1) /\ script' = Observe(script)
    \/ UserFindById(1) /\ script' = Observe(script)
    \/ UserFindByIdAndDelete(1) /\ script' = Observe(script)
    \/ \E u \in DeleteNames : PostUsers(2, AdminHeader, u) /\ Quiet
    \/ UserSave(2) /\ Quiet
    \/ \E i \in Ids \ {BadId}, u \in DeleteNames :
          PutUser(2, AdminHeader, i, u) /\ Quiet
    \/ UserFindByIdAndUpdate(2) /\ Quiet
    \/ \E i \in Ids \ {BadId} : DeleteUser(2, AdminHeader, i) /\ Quiet
    \/ UserFindByIdAndDelete(2) /\ Quiet

SpecDelete == Init /\ [][DeleteNext]_vars

----------------------------------------------------------------------------
(* SpecFault: one connection sending all six operations, with and without  *)
(* credentials, with valid and invalid ids, usernames and offsets, against  *)
(* a store whose calls may fail.                                           *)

\* absent; "Bearer <token>" with a token whose role is not admin; and with
\* the admin token
FaultHeaders == CrudHeaders

\* undefined, "a", "b"
FaultNames == { <<>>, Str(<<"a">>), Str(<<"b">>) }

\* no parameters; offset "-1"
FaultQueries == { NoQuery, [NoQuery EXCEPT !.offset = Str(<<"-", "1">>)] }

FaultNext ==
    \/ \E h \in FaultHeaders, u \in FaultNames : PostUsers(1, h, u) /\ Quiet
    \/ UserSave(1) /\ Quiet
    \/ \E i \in Ids : GetUser(1, i) /\ Quiet
    \/ UserFindById(1) /\ Quiet
    \/ \E h \in FaultHeaders, i \in Ids, u \in FaultNames :
          PutUser(1, h, i, u) /\ Quiet
    \/ UserFindByIdAndUpdate(1) /\ Quiet
    \/ \E h \in FaultHeaders, i \in Ids : DeleteUser(1, h, i) /\ Quiet
    \/ UserFindByIdAndDelete(1) /\ Quiet
    \/ \E q \in FaultQueries : GetUsers(1, q) /\ Quiet
    \/ UserFind(1) /\ Quiet
    \/ Login(1) /\ Quiet
    \/ StoreFails(1) /\ Quiet

SpecFault == Init /\ [][FaultNext]_vars

----------------------------------------------------------------------------
(* Claims *)

\* C1: in every reachable state of the store, no two stored Users have the
\* same username (case-sensitive exact match).
UsernamesUnique ==
    \A d1 \in users, d2 \in users : d1.username = d2.username => d1 = d2

\* two users are stored and the index has just refused to give one of them
\* the other's username
UniqueEnforced ==
    /\ Cardinality(users) >= 2
    /\ \E s \in Slots :
          /\ req[s].status = 409 /\ req[s].op = "update"
          /\ \E d \in users : d._id # req[s].id /\ d.username = req[s].doc.username

BothAnswered == \A s \in Slots : req[s].pc = "done" /\ req[s].op = "create"

StoredAs(u) == {d \in users : d.username = Sanitize(ToStr(u))}

\* C2 as stated: of two admitted create requests carrying the same username,
\* exactly one succeeds (201) and the other receives 409, and the store ends
\* with exactly one User of that username.
RaceExactlyOneSucceeds ==
    BothAnswered =>
        /\ \E s \in Slots :
              /\ req[s].status = 201
              /\ \A t \in Slots \ {s} : req[t].status = 409
        /\ Cardinality(StoredAs(req[1].username)) = 1

\* C2, amended: for a username that passes validation, the store ends with
\* exactly one User of the sanitized username, and either that User is the
\* document of one of the two requests, which got 201 while the other got
\* 409, or it was stored before they started and both got 409.
RaceArbitratedByStore ==
    BothAnswered =>
        LET held == StoredAs(req[1].username)
            mine == {req[s].doc : s \in Slots}
        IN
        /\ Cardinality(held) = 1
        /\ IF held \subseteq mine
           THEN \E s \in Slots :
                   /\ req[s].status = 201
                   /\ held = {req[s].doc}
                   /\ req[s].body = <<req[s].doc>>
                   /\ \A t \in Slots \ {s} : req[t].status = 409
           ELSE \A s \in Slots : req[s].status = 409

\* the request that was validated first saved second and lost the race
RaceLostAfterValidating ==
    /\ BothAnswered
    /\ req[1].at < req[2].at
    /\ req[2].status = 201
    /\ req[1].status = 409

Protected == {"create", "update", "delete"}

\* the characters of a header between its first space and the next one;
\* none when the header has no space
SecondSegment(h) ==
    LET spaces == {i \in 1..Len(h) : h[i] = 0} IN
    IF spaces = {} THEN <<>>
    ELSE LET i == CHOOSE x \in spaces : \A y \in spaces : x <= y
             later == {y \in spaces : y > i}
             j == IF later = {} THEN Len(h) + 1
                  ELSE CHOOSE x \in later : \A y \in later : x <= y
         IN <<SubSeq(h, i + 1, j - 1)>>

\* the second segment is a token signed under the secret
Verifies(h) ==
    /\ SecondSegment(h) # <<>>
    /\ Len(SecondSegment(h)[1]) = 1
    /\ SecondSegment(h)[1][1] \in {k + 1 : k \in 1..Len(tokens)}

Claims(h) == tokens[SecondSegment(h)[1][1] - 1]

IsExpired(h, t) == Claims(h).expires_at # <<>> /\ Claims(h).expires_at[1] < t

\* one of the rejections applies to header h at time t
Rejected(h, t) ==
    \/ h = <<>>
    \/ ~Verifies(h)
    \/ Claims(h).role # "admin"
    \/ IsExpired(h, t)

\* C3: when the Auth Gate rejects a request, next() is not called, no store
\* operation runs for the request and the rejection is its response; when no
\* rejection applies, next() is called exactly once.
GateShortCircuits ==
    \A s \in Slots :
        LET r == req[s] IN
        r.op \in Protected =>
            IF Rejected(r.header, r.at)
            THEN /\ r.nexts = 0
                 /\ r.ops = 0
                 /\ r.pc = "done"
                 /\ r.gate \in {401, 403}
                 /\ r.status = r.gate
                 /\ r.body = <<>>
            ELSE r.nexts = 1 /\ r.gate = 0

\* a delete of a stored user was rejected for an expired token and the user
\* is still stored
RejectedDeleteLeftUser ==
    \E s \in Slots :
        /\ req[s].op = "delete"
        /\ req[s].status = 403
        /\ req[s].msg = "Authorization token has expired."
        /\ ById(users, req[s].id) # {}

\* C4: the outcome of the Auth Gate is decided in this order: absent header
\* -> 401; second segment fails verification -> 401; role not admin -> 403;
\* expires_at < now -> 403; otherwise admitted.
GateOrder ==
    \A s \in Slots :
        LET r == req[s]
            h == r.header
            refused(status, msg) ==
                r.gate = status /\ r.status = status /\ r.msg = msg /\ r.nexts = 0
        IN
        r.op \in Protected =>
            IF h = <<>>
            THEN refused(401, "Authorization token is required.")
            ELSE IF ~Verifies(h)
            THEN refused(401, "Authorization token is invalid.")
            ELSE IF Claims(h).role # "admin"
            THEN refused(403, "Role must be admin to perform this action.")
            ELSE IF IsExpired(h, r.at)
            THEN refused(403, "Authorization token has expired.")
            ELSE r.gate = 0 /\ r.nexts = 1 /\ r.status \notin {401, 403}

\* a verified token that is both non-admin and expired was rejected for its role
NonAdminExpiredRejectedForRole ==
    \E s \in Slots :
        /\ req[s].op \in Protected
        /\ Verifies(req[s].header)
        /\ Claims(req[s].header).role # "admin"
        /\ IsExpired(req[s].header, req[s].at)
        /\ req[s].status = 403
        /\ req[s].msg = "Role must be admin to perform this action."

\* the tokens issued by POST /login during the observation
IssuedHere == (Len(EnvTokens) + 1)..Len(tokens)

\* C5: a token issued by POST /login at time t carries role "admin" and
\* expires_at = t + 300000; the Auth Gate admits it at every time up to
\* and including expires_at and answers 403 at every later time.
LoginTokenLifetime ==
    \A s \in Slots :
        LET r == req[s] IN
        /\ r.op = "login" /\ r.pc = "done" =>
              /\ r.status = 200
              /\ r.token - 1 \in IssuedHere
              /\ tokens[r.token - 1] =
                    [role |-> "admin", expires_at |-> <<r.at + 300000>>]
        /\ \A k \in IssuedHere :
              r.op \in Protected /\ r.header = <<1, 0, k + 1>> =>
                  IF r.at <= tokens[k].expires_at[1]
                  THEN r.gate = 0 /\ r.nexts = 1
                  ELSE r.gate = 403 /\ r.status = 403 /\ r.nexts = 0

\* a token issued by /login here was refused with 403 once past its expiry
LoginTokenExpired ==
    \E s \in Slots, k \in IssuedHere :
        /\ req[s].op \in Protected
        /\ req[s].header = <<1, 0, k + 1>>
        /\ req[s].at > tokens[k].expires_at[1]
        /\ req[s].status = 403

\* the request reached its route handler: the route has no gate, or the gate
\* called next()
Admitted(r) == r.op = "get" \/ (r.op \in Protected /\ r.nexts = 1)

\* C6: for every id that is not a structurally valid identifier, getById,
\* updateById and deleteById answer 400 Invalid ID and issue no store
\* operation for the request.
InvalidIdBeforeStore ==
    \A s \in Slots :
        LET r == req[s] IN
        /\ r.op \in {"get", "update", "delete"}
        /\ Admitted(r)
        /\ r.id <= 0
        => /\ r.pc = "done"
           /\ r.status = 400
           /\ r.msg = "Invalid ID."
           /\ r.ops = 0
           /\ r.body = <<>>

\* an admitted update with a valid username and an invalid id was answered
\* 400 without a store operation, while a user is stored
InvalidIdUpdateRefused ==
    \E s \in Slots :
        /\ req[s].op = "update"
        /\ req[s].nexts = 1
        /\ req[s].id = 0
        /\ req[s].username = <<(<<"a">>)>>
        /\ req[s].status = 400
        /\ req[s].ops = 0
        /\ users # {}

\* a get answered 200 for a user that was not updated or deleted since its
\* creation
GotAsCreated(r) ==
    /\ r.op = "get" /\ r.pc = "done" /\ r.status = 200
    /\ r.id \in DOMAIN orig

\* C8 as stated: create(u) followed by getById on the returned id yields a
\* User whose username equals u and whose joined_at is at or after the time
\* of the create call.
CreateThenGetSameUsername ==
    \A s \in Slots :
        LET r == req[s] IN
        GotAsCreated(r) =>
            /\ r.body[1].username = orig[r.id].raw
            /\ r.body[1].joined_at >= orig[r.id].at

HtmlChars == {"&", "<", ">", "\"", "'", "/", "\\"}

\* no surrounding whitespace and no HTML-significant character
IsClean(u) ==
    /\ u # <<>>
    /\ u[1] # " " /\ u[Len(u)] # " "
    /\ \A i \in 1..Len(u) : u[i] \notin HtmlChars

\* what is left of u without its leading and trailing spaces
Stripped(u) ==
    LET keep == {i \in 1..Len(u) : u[i] # " "} IN
    IF keep = {} THEN <<>>
    ELSE LET lo == CHOOSE i \in keep : \A j \in keep : i <= j
             hi == CHOOSE i \in keep : \A j \in keep : i >= j
         IN SubSeq(u, lo, hi)

\* C8, amended: the User has the same _id, the username is u trimmed and
\* HTML-escaped (u itself when u has no surrounding whitespace and no
\* HTML-significant character), and joined_at is at or after the create call.
CreateThenGetSanitizedUsername ==
    \A s \in Slots :
        LET r == req[s] IN
        GotAsCreated(r) =>
            LET u == orig[r.id].raw
                got == r.body[1]
            IN
            /\ got._id = r.id
            /\ IsClean(u) => got.username = u
            /\ IsClean(Stripped(u)) => got.username = Stripped(u)
            /\ u = <<"<">> => got.username = <<"&", "l", "t", ";">>
            /\ got.username = Sanitize(u)
            /\ got.joined_at >= orig[r.id].at

\* a user created after the clock advanced from a username with a leading
\* space was read back, trimmed
GotTrimmedUser ==
    \E s \in Slots :
        /\ GotAsCreated(req[s])
        /\ orig[req[s].id].raw = <<" ", "a">>
        /\ orig[req[s].id].at > 0
        /\ req[s].body[1].username = <<"a">>

ExpectedStatus == <<201, 409, 200, 204, 200, 200, 404>>

ExpectedName ==
    << <<"A", "n", "n">>, <<>>, <<"A", "n", "n">>, <<>>,
       <<"A", "n", "n", "e">>, <<"A", "n", "n", "e">>, <<>> >>

\* response number k is the one the scenario names: its status, and a body
\* with the generated id and the named username where it names a body
AsExpected(k) ==
    LET got == script.log[k] IN
    /\ got.status = ExpectedStatus[k]
    /\ IF ExpectedName[k] = <<>> THEN got.body = <<>>
       ELSE /\ Len(got.body) = 1
            /\ got.body[1].username = ExpectedName[k]
            /\ got.body[1]._id = script.id
            /\ got.body[1]._id > 0

\* C7 as stated: starting from a store with no user "Ann", the sequence
\* produces 201, 409, 200 "Ann", 204, 200 "Anne", 200 "Anne", 404.
ScenarioAsStated ==
    \A k \in 1..Len(script.log) : AsExpected(k)

\* C7, amended: starting from a store with no user "Ann" and no user
\* "Anne", the sequence produces exactly these statuses and bodies.
ScenarioWithoutAnne ==
    (\A d \in users : d._id = OldId => d.username # <<"A", "n", "n", "e">>)
        => \A k \in 1..Len(script.log) : AsExpected(k)

\* the whole scenario ran against a store that held another user, and the
\* clock advanced before the first request
ScenarioCompleted ==
    /\ Len(script.log) = 7
    /\ script.log[1].body[1].joined_at > 0
    /\ \E d \in users : d._id = OldId
    /\ \A d \in users : d.username # <<"A", "n", "n", "e">>

\* order, compared case-insensitively, equals "asc"
IsAsc(orderOpt) ==
    /\ orderOpt # <<>>
    /\ Len(orderOpt[1]) = 3
    /\ orderOpt[1][1] \in {"a", "A"}
    /\ orderOpt[1][2] \in {"s", "S"}
    /\ orderOpt[1][3] \in {"c", "C"}

\* C9: the sequence a list call returns is sorted by joined_at, ascending
\* when order equals "asc" case-insensitively and descending for every other
\* value, a missing one included.
ListSortedByJoinedAt ==
    \A s \in Slots :
        LET r == req[s] IN
        r.op = "list" /\ r.pc = "done" =>
            \A i, j \in 1..Len(r.body) :
                i < j => IF IsAsc(r.query.order)
                         THEN r.body[i].joined_at <= r.body[j].joined_at
                         ELSE r.body[i].joined_at >= r.body[j].joined_at

\* a list with order "ASC" returned two users, the earlier one first
ListedAscendingForUpperCase ==
    \E s \in Slots :
        /\ req[s].op = "list" /\ req[s].pc = "done"
        /\ req[s].query.order = <<(<<"A", "S", "C">>)>>
        /\ Len(req[s].body) = 2
        /\ req[s].body[1].joined_at < req[s].body[2].joined_at

\* a string of decimal digits
IsNonNegativeInteger(opt) == opt # <<>> /\ opt[1] # <<>> /\ AllDigits(opt[1])

\* a string of decimal digits, possibly after a minus sign
IsInteger(opt) ==
    \/ IsNonNegativeInteger(opt)
    \/ opt # <<>> /\ Len(opt[1]) >= 2 /\ Head(opt[1]) = "-" /\ AllDigits(Tail(opt[1]))

IntegerValue(opt) ==
    IF Head(opt[1]) = "-" THEN 0 - DigitsValue(Tail(opt[1])) ELSE DigitsValue(opt[1])

\* C10: the limit passed to the store is 10 whenever the limit parameter is
\* not a valid non-negative integer, and the offset passed is 0 whenever the
\* offset parameter is not a valid integer; otherwise the supplied value is
\* passed unchanged.  (The find holds numbers in tenths.)
ListDefaults ==
    \A s \in Slots :
        LET r == req[s] IN
        r.op = "list" =>
            /\ r.find.limit =
                  IF IsNonNegativeInteger(r.query.limit)
                  THEN 10 * IntegerValue(r.query.limit) ELSE 10 * 10
            /\ r.find.skip =
                  IF IsInteger(r.query.offset)
                  THEN 10 * IntegerValue(r.query.offset) ELSE 0

\* the username as received is absent, empty or made of spaces only
BlankUsername(opt) == opt = <<>> \/ Stripped(opt[1]) = <<>>

\* C11: for create and updateById, a username that is absent or empty after
\* trimming (a whitespace-only string included) is answered 400 and nothing
\* is written to the store; every persisted username is trimmed,
\* HTML-escaped and non-empty.
BlankUsernameRefused ==
    /\ \A s \in Slots :
          LET r == req[s] IN
          /\ r.op \in {"create", "update"}
          /\ r.nexts = 1
          /\ r.op = "update" => r.id > 0
          /\ BlankUsername(r.username)
          => /\ r.pc = "done"
             /\ r.status = 400
             /\ r.ops = 0
    /\ \A d \in users :
          /\ d.username # <<>>
          /\ d.username[1] # " " /\ d.username[Len(d.username)] # " "
          /\ \A i \in 1..Len(d.username) : d.username[i] \notin {"<", ">", "\"", "'"}

\* the store call of an update on connection s is answered in this step
UpdateAnswered(s) ==
    req[s].pc = "await" /\ req[s].op = "update" /\ req'[s].pc = "done"

\* C12: a successful updateById changes only the username of the matching
\* User: its id and joined_at, and every other User, are unchanged; so each
\* stored User keeps the id and joined_at assigned at its creation.  An
\* updateById on a valid id with no matching record answers 404 and changes
\* nothing.
UpdateChangesOnlyUsername ==
    [][ /\ \A s \in Slots :
              UpdateAnswered(s) =>
                  /\ req'[s].status = 204 =>
                        \E d \in users, e \in users' :
                            /\ d._id = req[s].id /\ e._id = d._id
                            /\ e.joined_at = d.joined_at
                            /\ users' \ {e} = users \ {d}
                  /\ ById(users, req[s].id) = {} =>
                        req'[s].status = 404 /\ users' = users
        /\ \A d \in users, e \in users' :
              e._id = d._id => e.joined_at = d.joined_at
        /\ \A e \in users' :
              ById(users, e._id) = {} =>
                  \E s \in Slots :
                      /\ req'[s].status = 201
                      /\ req'[s].body = <<e>>
                      /\ e.joined_at = req[s].at
      ]_vars

\* a user created after the clock advanced was renamed while another user
\* is stored, and kept its joined_at
RenamedUserKeptJoinedAt ==
    \E s \in Slots :
        /\ req[s].op = "update" /\ req[s].status = 204
        /\ Cardinality(users) = 2
        /\ \E d \in users :
              /\ d._id = req[s].id
              /\ d.joined_at > 0
              /\ d.username = <<"&", "l", "t", ";">>

\* the store call of a delete on connection s is answered in this step
DeleteAnswered(s) ==
    req[s].pc = "await" /\ req[s].op = "delete" /\ req'[s].pc = "done"

\* C13: an admitted deleteById on a valid id removes exactly the matching
\* User and returns its contents as they were immediately before removal
\* (200), or answers 404 and leaves the store unchanged when no record
\* matches; after a successful delete, every later getById and deleteById on
\* that id answers 404.
DeleteRemovesExactlyOne ==
    /\ [][ \A s \in Slots :
              DeleteAnswered(s) =>
                  IF \E d \in users : d._id = req[s].id
                  THEN \E d \in users :
                          /\ d._id = req[s].id
                          /\ req'[s].status = 200
                          /\ req'[s].body = <<d>>
                          /\ users' = users \ {d}
                  ELSE /\ req'[s].status = 404
                       /\ req'[s].body = <<>>
                       /\ users' = users
         ]_vars
    /\ [](\A k \in 1..Len(script.log) :
              script.log[k].op = "delete" /\ script.log[k].status = 200 =>
                  \A j \in (k + 1)..Len(script.log) :
                      /\ script.log[j].op \in {"get", "delete"}
                      /\ script.log[j].status = 404
                      /\ script.log[j].body = <<>>)

\* the client deleted its user, then got 404 for a get and for a second
\* delete, while the other connection had stored a user meanwhile
DeletedThenNotFound ==
    /\ Len(script.log) = 4
    /\ script.log[2].op = "delete" /\ script.log[2].status = 200
    /\ script.log[2].body[1]._id = script.id
    /\ script.log[3].op = "get" /\ script.log[3].status = 404
    /\ script.log[4].op = "delete" /\ script.log[4].status = 404
    /\ users # {}

\* C14: of the errors raised by the store or runtime while handling a
\* request, a store uniqueness violation is answered with 409 and every
\* other error with a generic 500 whose body carries no internal detail; no
\* error is answered with any other status.
ErrorsAnswered409Or500 ==
    \A s \in Slots :
        LET r == req[s] IN
        r.error # <<>> =>
            /\ r.pc = "done"
            /\ r.body = <<>>
            /\ IF r.error[1].name = "MongoServerError" /\ r.error[1].code = 11000
               THEN r.status = 409
               ELSE r.status = 500 /\ r.msg = "Something went wrong."

\* C15: each protected handler runs auth check, id validation, input
\* validation, store call, response in this order and stops at the first
\* failing step: without valid credentials the answer is 401 or 403 whatever
\* the id and body; an admitted request with an invalid id gets the Invalid
\* ID 400 whatever its username; the store is called only when all earlier
\* steps passed.
StepsInOrder ==
    \A s \in Slots :
        LET r == req[s] IN
        r.op \in Protected =>
            IF Rejected(r.header, r.at)
            THEN r.pc = "done" /\ r.status \in {401, 403} /\ r.ops = 0
            ELSE IF r.op \in {"update", "delete"} /\ r.id <= 0
            THEN r.pc = "done" /\ r.status = 400 /\ r.msg = "Invalid ID." /\ r.ops = 0
            ELSE IF r.op \in {"create", "update"} /\ (r.username = <<>> \/ r.username[1] = <<>>)
            THEN /\ r.pc = "done" /\ r.status = 400 /\ r.ops = 0
                 /\ r.msg = "Username is invalid."
            ELSE r.pc = "await" \/ r.ops = 1

\* an admitted update with an invalid id and no username was answered with
\* the Invalid ID outcome
InvalidIdBeforeInvalidUsername ==
    \E s \in Slots :
        /\ req[s].op = "update"
        /\ req[s].nexts = 1
        /\ req[s].id = 0
        /\ req[s].username = <<>>
        /\ req[s].status = 400
        /\ req[s].msg = "Invalid ID."

\* C16: for each of the five user operations, if the store call fails the
\* error is forwarded to the process-wide error handler and the request
\* receives a response; no request is left without a response after a store
\* failure.
StoreFailureAnswered ==
    \A s \in Slots :
        LET r == req[s] IN
        /\ r.op \in {"list", "create", "get", "update", "delete"}
        /\ r.error # <<>>
        => r.pc = "done" /\ r.status # 0

\* C17: an admitted updateById that sets a User's username to a value
\* already held by a different User is refused by the uniqueness constraint:
\* it is answered with the Conflict outcome (409), not 204, and both Users
\* are left exactly as they were.
UpdateToTakenNameRefused ==
    [][ \A s \in Slots :
            /\ UpdateAnswered(s)
            /\ \E d \in users, e \in users :
                  /\ d._id = req[s].id
                  /\ e._id # d._id
                  /\ e.username = Sanitize(ToStr(req[s].username))
            => /\ req'[s].status = 409
               /\ req'[s].msg = "A user with this name already exists."
               /\ users' = users
      ]_vars

\* an update of one stored user to the name of the other was answered 409
\* and the two still have different names
RenameToTakenNameGot409 ==
    \E s \in Slots :
        /\ req[s].op = "update" /\ req[s].status = 409
        /\ req[s].msg = "A user with this name already exists."
        /\ \E d \in users, e \in users :
              /\ d._id = req[s].id
              /\ e._id # d._id
              /\ e.username = Sanitize(ToStr(req[s].username))
              /\ d.username # e.username

\* C18: the Auth Gate admits a request only if its token verifies under the
\* shared secret, its role claim is "admin" and its expires_at claim is a
\* number that is >= now at the moment of the check; no verified token
\* lacking a numeric expires_at is admitted, so every store operation of a
\* protected route is caused by a request that carried an unexpired admin
\* token.
GateAdmitsOnlyUnexpiredAdmin ==
    \A s \in Slots :
        LET r == req[s] IN
        r.op \in Protected /\ (r.nexts > 0 \/ r.ops > 0) =>
            /\ Verifies(r.header)
            /\ Claims(r.header).role = "admin"
            /\ Claims(r.header).expires_at # <<>>
            /\ Claims(r.header).expires_at[1] >= r.at

\* C19: the unauthenticated operations list, getById and login never change
\* the user store, and every request that ends in a 400, 401, 403, 404 or
\* 409 outcome leaves the user store as it was: the only steps that change
\* the store are those in which a create, update or delete is answered 201,
\* 204 or 200.
ReadsAndRefusalsLeaveStore ==
    [][ /\ \A s \in Slots :
              req'[s] # req[s] =>
                  /\ req[s].pc = "await" /\ req[s].op \in {"list", "get", "login"}
                        => users' = users
                  /\ req'[s].op \in {"list", "get", "login"} => users' = users
                  /\ req'[s].status \in {400, 401, 403, 404, 409} => users' = users
        /\ users' # users =>
              \E s \in Slots :
                  /\ req[s].pc = "await" /\ req'[s].pc = "done"
                  /\ \/ req[s].op = "create" /\ req'[s].status = 201
                     \/ req[s].op = "update" /\ req'[s].status = 204
                     \/ req[s].op = "delete" /\ req'[s].status = 200
      ]_vars

\* an update of a valid id that no stored user has was answered 404 while
\* another user is stored
UpdateOfMissingGot404 ==
    \E s \in Slots :
        /\ req[s].op = "update" /\ req[s].status = 404
        /\ req[s].id > 0
        /\ users # {}
        /\ \A d \in users : d._id # req[s].id

====
